---- MODULE Spec2Model ----
(***************************************************************************)
(* Model of the port scanning engine                                       *)
(* (backend/app/modules/port_scan/engine.py): the probe executors, the     *)
(* service detector and the scan orchestrator of class PortScanner; of     *)
(* MetricsCollector (metrics.py) and of BenchmarkSuite (benchmark.py).     *)
(* Spec is a scan, SpecLive a scan under fairness, SpecDetect a direct     *)
(* call of service_detection, SpecSubdomains a run of scan_subdomains,     *)
(* SpecConcurrent two callers sharing one scanner, SpecMetrics the         *)
(* collector and SpecBenchmark a benchmark run.                            *)
(*                                                                         *)
(* One PortScanner object runs one scan.  The asyncio event loop is the    *)
(* scheduler: a coroutine runs without interruption from one await to the  *)
(* next, so every action below is the code between two suspension points.  *)
(* The network is the environment: the outcome of every connect, read,     *)
(* write and close is chosen nondeterministically when the wait ends.      *)
(* Time is counted in ticks, timeouts in tenths of a second; text is a     *)
(* sequence of characters.                                                 *)
(***************************************************************************)
EXTENDS Integers, Sequences, FiniteSets, TLC

\* ------------------------------------------------------------------ bounds
\* Number of consecutive ports a modelled scan may cover, and the length of
\* the prefix of COMMON_PORTS that scan_common_ports probes in the model.
MaxPorts == 2
\* The concurrency limit the modelled scanner is constructed with.
MaxWorkers == 1
\* Number of scans a MetricsCollector is handed.
MaxScans == 2
\* Largest time, in ticks, the wait for one connect or reply can take.
MaxTick == 0
\* Number of hostnames a modelled scan_subdomains call is handed.
MaxHosts == 2
\* --------------------------------------------------------- program constants
COMMON_PORTS ==
    <<21, 22, 23, 25, 53, 80, 110, 143, 443, 445, 3306, 3389, 5432, 5900,
      8080, 8443, 27017, 6379>>

SERVICE_PORTS ==
    (21 :> "FTP") @@ (22 :> "SSH") @@ (23 :> "Telnet") @@ (25 :> "SMTP") @@
    (53 :> "DNS") @@ (80 :> "HTTP") @@ (110 :> "POP3") @@ (143 :> "IMAP") @@
    (443 :> "HTTPS") @@ (445 :> "SMB") @@ (465 :> "SMTPS") @@
    (587 :> "SMTP") @@ (993 :> "IMAPS") @@ (995 :> "POP3S") @@
    (1433 :> "MSSQL") @@ (3306 :> "MySQL") @@ (3389 :> "RDP") @@
    (5432 :> "PostgreSQL") @@ (5900 :> "VNC") @@ (8080 :> "HTTP-Alt") @@
    (8443 :> "HTTPS-Alt") @@ (27017 :> "MongoDB") @@ (6379 :> "Redis") @@
    (9200 :> "Elasticsearch")

\* SERVICE_PORTS.get(port, "Unknown")
ServiceOf(port) ==
    IF port \in DOMAIN SERVICE_PORTS THEN SERVICE_PORTS[port] ELSE "Unknown"

\* Slice limits of the banner text: [:100] in tcp_connect_scan, [:200] in
\* service_detection, [:50] in _extract_version.
ConnectBannerLimit == 100
DetectBannerLimit == 200
VersionLimit == 50

Techniques == {"tcp_connect", "syn", "udp", "hybrid"}
MetricTechniques == {"tcp_connect", "syn", "udp"}

TargetHost == "target"

\* The values the probes give the status field.
Statuses == {"open", "closed", "filtered", "open|filtered"}

\* ------------------------------------------------------------------- text
\* A byte a UTF-8 decoder rejects; decode(errors='ignore') drops it.
BadByte == "0xFF"
Whitespace == {" ", "\t", "\r", "\n"}

\* What a peer may send in one read.
Payloads == { <<" ", BadByte>>, <<"o", "k", " ">> }

\* data.decode('utf-8', errors='ignore')
RECURSIVE Decode(_)
Decode(data) ==
    IF data = <<>> THEN <<>>
    ELSE IF Head(data) = BadByte THEN Decode(Tail(data))
    ELSE <<Head(data)>> \o Decode(Tail(data))

RECURSIVE LStrip(_)
LStrip(s) ==
    IF s = <<>> THEN <<>>
    ELSE IF Head(s) \in Whitespace THEN LStrip(Tail(s))
    ELSE s

RECURSIVE RStrip(_)
RStrip(s) ==
    IF s = <<>> THEN <<>>
    ELSE IF s[Len(s)] \in Whitespace THEN RStrip(SubSeq(s, 1, Len(s) - 1))
    ELSE s

\* str.strip()
Strip(s) == RStrip(LStrip(s))

\* s[:n]
Take(s, n) == SubSeq(s, 1, IF Len(s) < n THEN Len(s) ELSE n)

\* marker in s
Contains(s, marker) ==
    \E i \in 1..(Len(s) - Len(marker) + 1) :
        SubSeq(s, i, i + Len(marker) - 1) = marker

\* s.split(sep)[0] if sep in s else s
BeforeFirst(s, sep) ==
    IF \E i \in 1..Len(s) : s[i] = sep
    THEN LET k == CHOOSE i \in 1..Len(s) :
                      s[i] = sep /\ \A j \in 1..(i - 1) : s[j] # sep
         IN  SubSeq(s, 1, k - 1)
    ELSE s

_extract_version(banner) ==
    IF banner = <<>> THEN <<>>
    ELSE IF Contains(banner, <<"S", "S", "H">>) THEN BeforeFirst(banner, "\r")
    ELSE IF Contains(banner, <<"H", "T", "T", "P">>)
         THEN BeforeFirst(banner, "\n")
    ELSE IF Contains(banner, <<"F", "T", "P">>) THEN BeforeFirst(banner, "\r")
    ELSE Take(banner, VersionLimit)

\* ---------------------------------------------------------------- results
\* A coroutine that returns no PortScanResult returns None.
None == [kind |-> "None"]

PortScanResult(host, port, status, service, response_time, banner) ==
    [kind |-> "PortScanResult", host |-> host, port |-> port,
     status |-> status, service |-> service, version |-> <<>>,
     response_time |-> response_time, banner |-> banner]

IsResult(r) == r.kind = "PortScanResult"

\* Sum of f over the set S.
RECURSIVE SumOver(_, _)
SumOver(f, S) ==
    IF S = {} THEN 0
    ELSE LET x == CHOOSE y \in S : TRUE IN f[x] + SumOver(f, S \ {x})

SeqToSet(s) == {s[i] : i \in 1..Len(s)}

\* ------------------------------------------------------------------ state
VARIABLES
    max_workers,      \* self.max_workers
    timeout,          \* self.timeout, in tenths of a second
    scan_results,     \* self.scan_results
    pc,               \* where the scan call is: idle, gather, process, done
    entry,            \* which entry point is running
    args,             \* the arguments of scan_port_range
    ports_to_scan,    \* the worklist
    probe,            \* per port: the probe task's position and locals
    task_result,      \* per port: what the probe task returned
    elapsed,          \* per port: local elapsed of _scan_with_metric
    technique_times,  \* the shared per-technique accumulator
    out_of_order,     \* some task completed before an earlier-created one
    results,          \* the list asyncio.gather returned
    idx,              \* position of the loop over the results
    valid_results,    \* the list handed to the caller
    sd,               \* position and locals of the running service_detection
    detected,         \* the service_detection that just returned: port,
                      \* path, the steps that failed
    detections,       \* per port: what service_detection returned for it
    metrics,          \* the ScanMetrics returned, None before
    collector,        \* the MetricsCollector: its four lists
    confusion,        \* what calculate_precision_recall returned last
    bench,            \* the run of run_comprehensive_benchmark
    batch,            \* the run of scan_subdomains
    calls             \* the scan_port_range calls running on one scanner

vars == <<max_workers, timeout, scan_results, pc, entry, args,
          ports_to_scan, probe, task_result, elapsed, technique_times,
          out_of_order, results, idx, valid_results, sd, detected,
          detections, metrics, collector, confusion, bench, batch, calls>>

gatherVars == <<probe, task_result, elapsed, technique_times, out_of_order>>
processVars == <<results, idx, valid_results, sd, detected, detections>>
callVars == <<max_workers, timeout, scan_results, pc, entry, args,
              ports_to_scan, metrics>>
\* The scanner's state, and the state of the callers and measuring tools
\* around it.
scannerVars == <<max_workers, timeout, scan_results, pc, entry, args,
                 ports_to_scan, probe, task_result, elapsed,
                 technique_times, out_of_order, results, idx, valid_results,
                 sd, detected, detections, metrics>>
toolVars == <<collector, confusion, bench, batch, calls>>

\* PortScanner.__init__: timeout defaults to 3.0 seconds.  Timeouts are
\* counted in tenths of a second; the values a scanner is constructed with.
DefaultTimeout == 30
Timeouts == {5, 10, 30, 50, 100}

\* The modelled ranges lie in a window of MaxPorts ports that starts just
\* below the first well-known port, so that it holds ports of both kinds.
FirstPort == COMMON_PORTS[1] - 1
Window == FirstPort..(FirstPort + MaxPorts - 1)
Ticks == 0..MaxTick
\* What the difference of two readings of time.time() can be, in ticks:
\* nothing or something; the clock is taken not to be set back between the
\* two.
ClockDeltas == {0, 1}

NoArgs == [start_port |-> 0, end_port |-> 0, use_common_ports |-> FALSE,
           technique |-> "none"]
NotRun == [kind |-> "NotRun"]
\* No service_detection is running.  While one runs, probe_timeout is its
\* local of that name; once its reads are over, pending is the result it
\* is about to return, path the way it went and failures the steps that
\* failed.
SdIdle == [stage |-> "idle", banner |-> <<>>, listen |-> "none",
           probe_sent |-> FALSE, probe_timeout |-> 0, pending |-> None,
           path |-> "none", failures |-> {}]
NewProbe == [stage |-> "pending", outcome |-> "none", response_time |-> 0,
             banner |-> <<>>]

\* defaultdict(lambda: {"count": 0, "time": 0.0}): every key reads as zero
\* until it is written.
NewTechniqueTimes == [t \in MetricTechniques |-> [count |-> 0, time |-> 0]]

Ports == SeqToSet(ports_to_scan)

\* MetricsCollector.__init__: the four lists are empty.
NewCollector == [scan_results |-> <<>>, scan_times |-> <<>>,
                 services_found |-> <<>>, memory_usage |-> <<>>]

\* BenchmarkSuite before run_comprehensive_benchmark: no tool has run.  met
\* lists what each benchmark met, results holds the entries in the order
\* they were stored.
BenchIdle == [stage |-> "idle", met |-> <<>>, results |-> <<>>,
              report |-> None]

\* scan_subdomains before it is called.  results is the dictionary keyed by
\* hostname; met lists what each turn of the loop met and probed the ports
\* it had probed.
BatchIdle == [stage |-> "idle", subdomains |-> <<>>, ports |-> <<>>,
              i |-> 0, ip |-> None, results |-> <<>>, all_metrics |-> <<>>,
              met |-> <<>>, probed |-> <<>>, summary |-> None]

\* The callers that share one scanner, and a caller that has not called
\* yet.  worklist, results, idx and valid_results are the locals of its
\* scan_port_range call, returned is what the call returned; banners
\* lists what service_detection read for each result, overlapped says
\* whether the call ran while another one was suspended, found whether it
\* found results in self.scan_results.
CallIds == {1, 2}
CallIdle == [stage |-> "idle", worklist |-> <<>>, results |-> <<>>,
             banners |-> <<>>, idx |-> 0, valid_results |-> <<>>,
             returned |-> None, overlapped |-> FALSE, found |-> FALSE]
NoCalls == [c \in CallIds |-> CallIdle]

Init ==
    /\ max_workers = MaxWorkers
    /\ timeout = DefaultTimeout
    /\ scan_results = <<>>
    /\ pc = "idle"
    /\ entry = "none"
    /\ args = NoArgs
    /\ ports_to_scan = <<>>
    /\ probe = <<>>
    /\ task_result = <<>>
    /\ elapsed = <<>>
    /\ technique_times = NewTechniqueTimes
    /\ out_of_order = FALSE
    /\ results = <<>>
    /\ idx = 0
    /\ valid_results = <<>>
    /\ sd = SdIdle
    /\ detected = None
    /\ detections = <<>>
    /\ metrics = None
    /\ collector = NewCollector
    /\ confusion = None
    /\ bench = BenchIdle
    /\ batch = BatchIdle
    /\ calls = NoCalls

\* --------------------------------------------------------------- worklist
\* list(range(start_port, end_port + 1))
PortRange(start_port, end_port) ==
    [i \in 1..(end_port - start_port + 1) |-> start_port + i - 1]

\* The worklist with the well-known ports put first and left in the rest.
WorklistCommonTwice(start_port, end_port, use_common_ports) ==
    LET all == PortRange(start_port, end_port)
        common == SelectSeq(COMMON_PORTS,
                            LAMBDA p : start_port <= p /\ p <= end_port)
    IN  IF use_common_ports THEN common \o all ELSE all

Worklist(start_port, end_port, use_common_ports) ==
    LET all == PortRange(start_port, end_port)
        common == SelectSeq(COMMON_PORTS,
                            LAMBDA p : start_port <= p /\ p <= end_port)
        uncommon == SelectSeq(all, LAMBDA p : p \notin SeqToSet(common))
    IN  IF use_common_ports THEN common \o uncommon ELSE all

\* The tasks are created, one per port of the worklist, and handed to
\* asyncio.gather; none has run yet.
CreateTasks(worklist) ==
    LET ps == SeqToSet(worklist) IN
    /\ ports_to_scan' = worklist
    /\ probe' = [p \in ps |-> NewProbe]
    /\ task_result' = [p \in ps |-> NotRun]
    /\ elapsed' = [p \in ps |-> 0]
    /\ detected' = None
    /\ detections' = <<>>
    /\ technique_times' = NewTechniqueTimes
    /\ out_of_order' = FALSE
    /\ results' = <<>>
    /\ idx' = 0
    /\ valid_results' = <<>>
    /\ sd' = SdIdle
    /\ pc' = "gather"

scan_port_range(start_port, end_port, use_common_ports, technique) ==
    /\ pc = "idle"
    /\ entry' = "scan_port_range"
    /\ args' = [start_port |-> start_port, end_port |-> end_port,
                use_common_ports |-> use_common_ports,
                technique |-> technique]
    /\ scan_results' = <<>>
    /\ CreateTasks(Worklist(start_port, end_port, use_common_ports))
    /\ UNCHANGED <<max_workers, timeout, metrics>>
    /\ UNCHANGED toolVars

\* scan_common_ports probes COMMON_PORTS; the model probes its first
\* MaxPorts entries.
scan_common_ports ==
    /\ pc = "idle"
    /\ entry' = "scan_common_ports"
    /\ args' = NoArgs
    /\ CreateTasks(SubSeq(COMMON_PORTS, 1, MaxPorts))
    /\ UNCHANGED <<max_workers, timeout, scan_results, metrics>>
    /\ UNCHANGED toolVars

\* ------------------------------------------------------------- scheduling
PositionOf(p) == CHOOSE i \in 1..Len(ports_to_scan) : ports_to_scan[i] = p

\* The tasks of a gather enter the loop's ready queue in creation order and
\* each runs to its first await before any wakeup is handled.
NextToStart(p) ==
    /\ probe[p].stage = "pending"
    /\ \A q \in Ports : PositionOf(q) < PositionOf(p)
                           => probe[q].stage # "pending"

AllStarted == \A q \in Ports : probe[q].stage # "pending"

InFlightStages == {"connecting", "grabbing", "closing", "in_thread",
                   "blocking"}
InFlight == Cardinality({p \in Ports : probe[p].stage \in InFlightStages})

\* The probe technique of the running call.
ProbeKind ==
    IF entry = "scan_common_ports" THEN "tcp_connect"
    ELSE IF args.technique \in {"tcp_connect", "hybrid"} THEN "tcp_connect"
    ELSE args.technique

\* The accumulator written from a value read before the await: the time of
\* the probes that completed in between is lost.
ScanWithMetricOverwrite(acc, technique, e) ==
    [acc EXCEPT ![technique].time = e, ![technique].count = @ + 1]

\* metrics[technique]["time"] += elapsed; metrics[technique]["count"] += 1
_scan_with_metric(acc, technique, e) ==
    [acc EXCEPT ![technique].time = @ + e, ![technique].count = @ + 1]

\* The probe coroutine of port p returns r after having met outcome o (its
\* locals are gone); inside scan_port_range the wrapper _scan_with_metric
\* then adds its elapsed time e to the accumulator.
TaskReturns(p, o, r, e) ==
    /\ probe' = [probe EXCEPT ![p] = [NewProbe EXCEPT !.stage = "done",
                                                      !.outcome = o]]
    /\ task_result' = [task_result EXCEPT ![p] = r]
    /\ out_of_order' =
           (out_of_order \/
            \E q \in Ports : /\ PositionOf(q) < PositionOf(p)
                             /\ probe[q].stage # "done")
    /\ IF entry = "scan_port_range"
       THEN /\ elapsed' = [elapsed EXCEPT ![p] = e]
            /\ technique_times' =
                   _scan_with_metric(technique_times, ProbeKind, e)
       ELSE UNCHANGED <<elapsed, technique_times>>

\* -------------------------------------------------------- tcp_connect_scan
ConnectOutcomes == {"connected", "timeout", "refused", "error"}

\* The except clauses of tcp_connect_scan: the status a failed connect gets.
ConnectFailureStatus(o) ==
    IF o = "refused" THEN "closed" ELSE "filtered"

\* The task starts: start_time is read and open_connection is awaited.
TcpStart(p) ==
    /\ pc = "gather"
    /\ ProbeKind = "tcp_connect"
    /\ NextToStart(p)
    /\ probe' = [probe EXCEPT ![p].stage = "connecting"]
    /\ UNCHANGED <<task_result, elapsed, technique_times, out_of_order>>
    /\ UNCHANGED processVars
    /\ UNCHANGED callVars
    /\ UNCHANGED toolVars

\* wait_for(open_connection) ends after rt ticks with outcome o.  A failed
\* connect returns from its except clause at once; a completed handshake
\* goes on to the banner grab (write, drain, read).
TcpConnectDone(p, o, rt) ==
    /\ pc = "gather"
    /\ AllStarted
    /\ probe[p].stage = "connecting"
    /\ IF o = "connected"
       THEN /\ probe' = [probe EXCEPT ![p].stage = "grabbing",
                                      ![p].outcome = o,
                                      ![p].response_time = rt]
            /\ UNCHANGED <<task_result, elapsed, technique_times,
                           out_of_order>>
       ELSE TaskReturns(p,
                o,
                PortScanResult(TargetHost, p, ConnectFailureStatus(o), "",
                               rt, <<>>),
                rt)
    /\ UNCHANGED processVars
    /\ UNCHANGED callVars
    /\ UNCHANGED toolVars

GrabOutcomes == {"data", "eof", "timeout", "error"}

\* The banner the grab leaves in the local variable banner: the decoded,
\* stripped and cut data when the read returned some, empty on every failure
\* (except Exception: pass).
GrabbedBanner(g, data) ==
    IF g = "data" THEN Take(Strip(Decode(data)), ConnectBannerLimit)
    ELSE <<>>

\* The banner grab ends; the finally clause closes the writer and awaits
\* wait_closed.
TcpBannerGrab(p, g, data) ==
    /\ pc = "gather"
    /\ probe[p].stage = "grabbing"
    /\ probe' = [probe EXCEPT ![p].stage = "closing",
                              ![p].banner = GrabbedBanner(g, data)]
    /\ UNCHANGED <<task_result, elapsed, technique_times, out_of_order>>
    /\ UNCHANGED processVars
    /\ UNCHANGED callVars
    /\ UNCHANGED toolVars

CloseOutcomes == {"closed", "error"}

\* tcp_connect_scan giving up, as the other probes do, when its close fails.
TcpCloseResultNone(p, c, rt, banner, e) ==
    IF c = "closed"
    THEN PortScanResult(TargetHost, p, "open", ServiceOf(p), rt, banner)
    ELSE None

\* What tcp_connect_scan returns once wait_closed ended, e ticks after the
\* start.  wait_closed raises the error the connection was lost with; it is
\* awaited in the finally clause, inside the outer try, so the error reaches
\* the outer except Exception, which reads the clock again.
TcpCloseResult(p, c, rt, banner, e) ==
    IF c = "closed"
    THEN PortScanResult(TargetHost, p, "open", ServiceOf(p), rt, banner)
    ELSE PortScanResult(TargetHost, p, "filtered", "", e, <<>>)

\* The banner grab and the close together take one tick.
TcpClose(p, c) ==
    /\ pc = "gather"
    /\ probe[p].stage = "closing"
    /\ LET e == probe[p].response_time + 1 IN
       TaskReturns(p,
           probe[p].outcome,
           TcpCloseResult(p, c, probe[p].response_time, probe[p].banner, e),
           e)
    /\ UNCHANGED processVars
    /\ UNCHANGED callVars
    /\ UNCHANGED toolVars

\* ----------------------------------------------------------- syn_scan_sync
\* What the worker thread meets: connect_ex returns 0, returns the errno of
\* a refusal, returns another errno, or a socket call raises (no permission
\* for a raw socket, unsupported platform, unresolvable host).
SynOutcomes == {"zero", "refused", "errno", "exception"}

syn_scan_sync(p, o, rt) ==
    IF o = "exception" THEN None
    ELSE IF o = "zero"
         THEN PortScanResult(TargetHost, p, "open", ServiceOf(p), rt, <<>>)
    ELSE PortScanResult(TargetHost, p, "filtered", "", rt, <<>>)

\* The task starts: asyncio.to_thread hands syn_scan_sync to a worker thread.
SynStart(p) ==
    /\ pc = "gather"
    /\ ProbeKind = "syn"
    /\ NextToStart(p)
    /\ probe' = [probe EXCEPT ![p].stage = "in_thread"]
    /\ UNCHANGED <<task_result, elapsed, technique_times, out_of_order>>
    /\ UNCHANGED processVars
    /\ UNCHANGED callVars
    /\ UNCHANGED toolVars

\* The worker thread finished after e ticks and the task is woken.
SynDone(p, o, e) ==
    /\ pc = "gather"
    /\ AllStarted
    /\ probe[p].stage = "in_thread"
    /\ TaskReturns(p,
           o,
           syn_scan_sync(p, o, e),
           e)
    /\ UNCHANGED processVars
    /\ UNCHANGED callVars
    /\ UNCHANGED toolVars

\* ---------------------------------------------------------------- udp_scan
\* A reply datagram arrives, recvfrom times out, or a socket call raises
\* anything else (send failure, ICMP error surfaced by recvfrom, ...).
UdpOutcomes == {"reply", "timeout", "error"}

\* udp_scan resolving the silence of a port to filtered.
UdpScanSilenceFiltered(p, o, rt) ==
    IF o = "reply"
    THEN PortScanResult(TargetHost, p, "open", ServiceOf(p), rt, <<>>)
    ELSE IF o = "timeout"
         THEN PortScanResult(TargetHost, p, "filtered", "", rt, <<>>)
    ELSE None

udp_scan(p, o, rt) ==
    IF o = "reply"
    THEN PortScanResult(TargetHost, p, "open", ServiceOf(p), rt, <<>>)
    ELSE IF o = "timeout"
         THEN PortScanResult(TargetHost, p, "open|filtered", "", rt, <<>>)
    ELSE None

\* udp_scan has no await: sendto and recvfrom are called on the event
\* loop's own thread, which they block until they return.
LoopBlocked == \E p \in Ports : probe[p].stage = "blocking"

\* The task starts: the socket is created, the datagram sent and recvfrom
\* entered.  No task starts while the loop's thread is held.
UdpStart(p) ==
    /\ pc = "gather"
    /\ ProbeKind = "udp"
    /\ NextToStart(p)
    /\ ~LoopBlocked
    /\ probe' = [probe EXCEPT ![p].stage = "blocking"]
    /\ UNCHANGED <<task_result, elapsed, technique_times, out_of_order>>
    /\ UNCHANGED processVars
    /\ UNCHANGED callVars
    /\ UNCHANGED toolVars

\* recvfrom returns or raises after e ticks and udp_scan returns.
UdpDone(p, o, e) ==
    /\ pc = "gather"
    /\ probe[p].stage = "blocking"
    /\ TaskReturns(p,
           o,
           udp_scan(p, o, e),
           e)
    /\ UNCHANGED processVars
    /\ UNCHANGED callVars
    /\ UNCHANGED toolVars

\* What can have become of the socket of a probe of technique kind when the
\* probe returns after outcome o.  "closed": the probe closed it
\* (writer.close() in the finally clause of tcp_connect_scan, sock.close()
\* after connect_ex, after recvfrom and on socket.timeout).  "none": the
\* probe holds no socket (open_connection failed, socket.socket raised).
\* "unclosed": the probe returned from except Exception without a close, and
\* the socket stays open until the garbage collector finalises the object,
\* if it ever does.
SocketAtReturn(kind, o) ==
    IF kind = "tcp_connect"
    THEN IF o = "connected" THEN {"closed"} ELSE {"none"}
    ELSE IF kind = "syn"
    THEN IF o = "exception" THEN {"none", "unclosed"} ELSE {"closed"}
    ELSE IF o \in {"reply", "timeout"} THEN {"closed"} ELSE {"unclosed"}

\* ------------------------------------------------------- service_detection
\* Ports whose probe is written outside a try of its own.
UnguardedProbePorts == {80, 8080, 8000, 8008}

ReadOutcomes == {"data", "eof", "timeout", "error"}

\* wait_for(writer.drain(), 0.8) returns, or it raises or times out.
DrainOutcomes == {"ok", "failed"}

\* banner += data.decode('utf-8', errors='ignore') when the read returned
\* data; a timeout or an end of stream leaves banner as it is.
AddBanner(banner, o, data) ==
    IF o = "data" THEN banner \o Decode(data) ELSE banner

\* The banner stored without the test for an empty one.
StoreBannerUnguarded(result, banner) ==
    LET b == Take(Strip(banner), DetectBannerLimit)
    IN  [result EXCEPT !.banner = b, !.version = _extract_version(b)]

\* if banner: banner = banner.strip()[:200]; result.banner = banner;
\* result.version = self._extract_version(banner)
StoreBanner(result, banner) ==
    IF banner # <<>>
    THEN LET b == Take(Strip(banner), DetectBannerLimit)
         IN  [result EXCEPT !.banner = b, !.version = _extract_version(b)]
    ELSE result

\* The result object the loop of the running call holds at position idx.
Current == IF entry = "scan_port_range" THEN results[idx]
           ELSE valid_results[idx]

\* The returned result dropped by the loop, which keeps the one it held.
DetectReturnDiscarded(r, path, failures) ==
    /\ detected' = [port |-> r.port, path |-> path, failures |-> failures]
    /\ detections' = (r.port :> r) @@ detections
    /\ sd' = SdIdle
    /\ idx' = idx + 1
    /\ UNCHANGED results
    /\ valid_results' = IF entry = "scan_port_range"
                        THEN Append(valid_results, Current)
                        ELSE valid_results

\* service_detection returns r for the result at position idx, having gone
\* down path with the steps in failures failed; the loop stores it and moves
\* on.
DetectReturn(r, path, failures) ==
    /\ detected' = [port |-> r.port, path |-> path, failures |-> failures]
    /\ detections' = (r.port :> r) @@ detections
    /\ sd' = SdIdle
    /\ idx' = idx + 1
    /\ results' = [results EXCEPT ![idx] = r]
    /\ valid_results' = IF entry = "scan_port_range"
                        THEN Append(valid_results, r)
                        ELSE [valid_results EXCEPT ![idx] = r]

\* The connect timeout without its lower bound.
ProbeTimeoutNoFloor(t) == IF t < 50 THEN t ELSE 50

\* probe_timeout = max(1.0, min(5.0, self.timeout))
probe_timeout(t) ==
    LET m == IF t < 50 THEN t ELSE 50
    IN  IF m > 10 THEN m ELSE 10

\* The state of a service_detection that has just been called for an open
\* result and awaits its connection.
SdConnect == [SdIdle EXCEPT !.stage = "connect",
                            !.probe_timeout = probe_timeout(timeout)]

\* The reads of the detection are over, normally or by an exception: the
\* finally clause closes the writer and awaits wait_closed; r is what the
\* call returns after that.
DetectFinally(r, path, failures) ==
    /\ sd' = [SdIdle EXCEPT !.stage = "close",
                            !.probe_timeout = sd.probe_timeout,
                            !.pending = r,
                            !.path = path,
                            !.failures = failures]
    /\ UNCHANGED <<results, idx, valid_results, detected, detections>>

\* wait_for(open_connection) of the detector ends.  A failure (timeout,
\* refusal, TLS failure) is caught by the outer except: the result is
\* returned as it came.
DetectConnect(o) ==
    /\ pc = "process"
    /\ sd.stage = "connect"
    /\ o \in {"connected", "failed"}
    /\ IF o = "connected"
       THEN /\ sd' = [sd EXCEPT !.stage = "listen"]
            /\ UNCHANGED <<results, idx, valid_results, detected,
                           detections>>
       ELSE DetectReturn(Current, "connect_failed", {"connect"})
    /\ UNCHANGED gatherVars
    /\ UNCHANGED callVars
    /\ UNCHANGED toolVars

\* The 0.8 s listen for an unsolicited banner ends with outcome o; the
\* port's probe is then written (w says whether writer.write raises) and,
\* when it was, drain is awaited, then the response read.
DetectListen(o, data, w) ==
    /\ pc = "process"
    /\ sd.stage = "listen"
    /\ IF o = "error"
       THEN DetectFinally(Current, "io_error", {"listen"})
       ELSE IF w = "raises" /\ Current.port \in UnguardedProbePorts
       THEN DetectFinally(Current, "io_error", {"write"})
       ELSE /\ sd' = [sd EXCEPT
                        !.stage = "read",
                        !.banner = AddBanner(@, o, data),
                        !.listen = o,
                        !.probe_sent = (w = "ok")]
            /\ UNCHANGED <<results, idx, valid_results, detected,
                           detections>>
    /\ UNCHANGED gatherVars
    /\ UNCHANGED callVars
    /\ UNCHANGED toolVars

\* The path a detection that got to its end is recorded with.
ReadPath(listen, o, banner) ==
    IF listen = "timeout" /\ o = "timeout" THEN "timed_out"
    ELSE IF banner # <<>> THEN "banner"
    ELSE "no_data"

\* The steps of a detection that got to its response read which failed: the
\* write of the probe when it raised inside its own try, the drain (awaited
\* only when the probe was written) when it raised or timed out, the read
\* when it raised something else than the timeout.
FailedSteps(probe_sent, dr, o) ==
    (IF probe_sent THEN {} ELSE {"write"})
        \cup (IF dr = "failed" THEN {"drain"} ELSE {})
        \cup (IF o = "error" THEN {"read"} ELSE {})

\* The wait for drain ends with dr, and every failure of it is ignored; the
\* 1.2 s read of the response ends with outcome o.  An error other than the
\* timeout leaves through the finally clause to the outer except; otherwise
\* the banner is stored and the result is the one to return.
DetectRead(o, data, dr) ==
    /\ pc = "process"
    /\ sd.stage = "read"
    /\ dr = "failed" => sd.probe_sent
    /\ IF o = "error"
       THEN DetectFinally(Current, "io_error",
                          FailedSteps(sd.probe_sent, dr, o))
       ELSE LET banner == AddBanner(sd.banner, o, data)
            IN  DetectFinally(StoreBanner(Current, banner),
                              ReadPath(sd.listen, o, banner),
                              FailedSteps(sd.probe_sent, dr, o))
    /\ UNCHANGED gatherVars
    /\ UNCHANGED callVars
    /\ UNCHANGED toolVars

\* await writer.wait_closed() ends.  The close is guarded (except
\* Exception: pass), so it makes no difference whether it returns or
\* raises: service_detection returns.
DetectClose ==
    /\ pc = "process"
    /\ sd.stage = "close"
    /\ DetectReturn(sd.pending, sd.path, sd.failures)
    /\ UNCHANGED gatherVars
    /\ UNCHANGED callVars
    /\ UNCHANGED toolVars

\* --------------------------------------------------- collecting the results
\* The gather handing back the results last task first.
GatherReturnReversed ==
    /\ pc = "gather"
    /\ \A p \in Ports : probe[p].stage = "done"
    /\ LET rs == [i \in 1..Len(ports_to_scan) |->
                      task_result[ports_to_scan[Len(ports_to_scan) + 1 - i]]]
       IN  /\ results' = rs
           /\ valid_results' = IF entry = "scan_port_range" THEN <<>>
                               ELSE SelectSeq(rs, LAMBDA r : r # None)
    /\ idx' = 1
    /\ pc' = "process"
    /\ probe' = [p \in Ports |-> [NewProbe EXCEPT !.stage = "collected"]]
    /\ UNCHANGED <<sd, detected, detections>>
    /\ UNCHANGED <<task_result, elapsed, technique_times, out_of_order>>
    /\ UNCHANGED <<max_workers, timeout, scan_results, entry, args,
                   ports_to_scan, metrics>>
    /\ UNCHANGED toolVars

\* asyncio.gather returns the tasks' results in the order of the tasks; the
\* tasks are gone.
GatherReturn ==
    /\ pc = "gather"
    /\ \A p \in Ports : probe[p].stage = "done"
    /\ LET rs == [i \in 1..Len(ports_to_scan) |->
                      task_result[ports_to_scan[i]]]
       IN  /\ results' = rs
           /\ valid_results' = IF entry = "scan_port_range" THEN <<>>
                               ELSE SelectSeq(rs, LAMBDA r : r # None)
    /\ idx' = 1
    /\ pc' = "process"
    /\ probe' = [p \in Ports |-> [NewProbe EXCEPT !.stage = "collected"]]
    /\ UNCHANGED <<sd, detected, detections>>
    /\ UNCHANGED <<task_result, elapsed, technique_times, out_of_order>>
    /\ UNCHANGED <<max_workers, timeout, scan_results, entry, args,
                   ports_to_scan, metrics>>
    /\ UNCHANGED toolVars

\* The list the running loop walks: results in scan_port_range, the open
\* ones of valid_results in scan_common_ports.
LoopList == IF entry = "scan_port_range" THEN results ELSE valid_results

\* One turn of the loop over the results, up to its await or its end:
\* what is no PortScanResult is left out, an open result goes to
\* service_detection, any other result is kept as it is.
ProcessResult ==
    /\ pc = "process"
    /\ sd.stage = "idle"
    /\ idx <= Len(LoopList)
    /\ LET r == LoopList[idx] IN
       IF IsResult(r) /\ r.status = "open"
       THEN /\ sd' = SdConnect
            /\ UNCHANGED <<idx, valid_results>>
       ELSE /\ idx' = idx + 1
            /\ valid_results' =
                   IF entry = "scan_port_range" /\ IsResult(r)
                   THEN Append(valid_results, r)
                   ELSE valid_results
            /\ UNCHANGED sd
    /\ detected' = None
    /\ UNCHANGED <<results, detections>>
    /\ UNCHANGED gatherVars
    /\ UNCHANGED callVars
    /\ UNCHANGED toolVars

\* ------------------------------------------------------------- ScanMetrics
IsOpen(r) == r.status = "open"
IsClosed(r) == r.status = "closed"
\* The bucket as an equality test: r.status == "filtered".
HasFilteredExact(r) == r.status = "filtered"

\* "filtered" in r.status
HasFiltered(r) == r.status \in {"filtered", "open|filtered"}

\* time / count if count > 0 else 0, kept as a fraction
AvgTime(t) == IF t.count > 0 THEN [num |-> t.time, den |-> t.count]
              ELSE [num |-> 0, den |-> 1]

TechniqueBreakdown(acc) ==
    [t \in MetricTechniques |->
        [count |-> acc[t].count, time |-> acc[t].time,
         avg_time |-> AvgTime(acc[t])]]

\* The rate without the test of total_time.
PortsPerSecondUnguarded(n, total_time) == [num |-> n, den |-> total_time]

\* len(valid_results) / total_time if total_time > 0 else 0, kept as a
\* fraction
PortsPerSecond(n, total_time) ==
    IF total_time > 0 THEN [num |-> n, den |-> total_time]
    ELSE [num |-> 0, den |-> 1]

\* sum(r.response_time for r in valid_results)
RECURSIVE SumResponseTime(_)
SumResponseTime(valid) ==
    IF valid = <<>> THEN 0
    ELSE Head(valid).response_time + SumResponseTime(Tail(valid))

\* sum(...) / len(valid_results) if valid_results else 0, kept as a fraction
AvgResponseTime(valid) ==
    IF valid # <<>> THEN [num |-> SumResponseTime(valid), den |-> Len(valid)]
    ELSE [num |-> 0, den |-> 1]

ScanMetrics(valid, breakdown, total_time) ==
    [kind |-> "ScanMetrics",
     total_ports_scanned |-> Len(valid),
     open_ports_found |->
         Cardinality({i \in 1..Len(valid) : IsOpen(valid[i])}),
     closed_ports |->
         Cardinality({i \in 1..Len(valid) : IsClosed(valid[i])}),
     filtered_ports |->
         Cardinality({i \in 1..Len(valid) : HasFiltered(valid[i])}),
     total_time |-> total_time,
     ports_per_second |-> PortsPerSecond(Len(valid), total_time),
     average_response_time |-> AvgResponseTime(valid),
     technique_breakdown |-> breakdown,
     concurrent_connections |-> max_workers,
     host |-> TargetHost]

\* The loop is over: the metrics are computed and the call returns.
\* total_time is the clock difference the call measured: up to here in
\* scan_port_range, around the gather in scan_common_ports, where nothing
\* reads it before this point.
Return(total_time) ==
    /\ pc = "process"
    /\ entry \in {"scan_port_range", "scan_common_ports"}
    /\ sd.stage = "idle"
    /\ idx > Len(LoopList)
    /\ metrics' = ScanMetrics(valid_results,
                     IF entry = "scan_port_range"
                     THEN TechniqueBreakdown(technique_times) ELSE <<>>,
                     total_time)
    /\ scan_results' = IF entry = "scan_port_range" THEN valid_results
                       ELSE scan_results
    /\ pc' = "done"
    /\ detected' = None
    /\ UNCHANGED <<max_workers, timeout, entry, args, ports_to_scan>>
    /\ UNCHANGED gatherVars
    /\ UNCHANGED <<results, idx, valid_results, sd, detections>>
    /\ UNCHANGED toolVars

\* ---------------------------------------------------------- specification
Next ==
    \/ \E a \in Window, b \in (FirstPort - 1)..(FirstPort + MaxPorts - 1),
          c \in BOOLEAN, t \in Techniques :
          b >= a - 1 /\ scan_port_range(a, b, c, t)
    \/ scan_common_ports
    \/ \E p \in Ports : TcpStart(p)
    \/ \E p \in Ports, o \in ConnectOutcomes, rt \in Ticks :
          TcpConnectDone(p, o, rt)
    \/ \E p \in Ports, g \in GrabOutcomes, d \in Payloads :
          TcpBannerGrab(p, g, d)
    \/ \E p \in Ports, c \in CloseOutcomes : TcpClose(p, c)
    \/ \E p \in Ports : SynStart(p)
    \/ \E p \in Ports, o \in SynOutcomes, e \in Ticks : SynDone(p, o, e)
    \/ \E p \in Ports : UdpStart(p)
    \/ \E p \in Ports, o \in UdpOutcomes, e \in Ticks : UdpDone(p, o, e)
    \/ GatherReturn
    \/ ProcessResult
    \/ \E o \in {"connected", "failed"} : DetectConnect(o)
    \/ \E o \in ReadOutcomes, d \in Payloads, w \in {"ok", "raises"} :
          DetectListen(o, d, w)
    \/ \E o \in ReadOutcomes, d \in Payloads, dr \in DrainOutcomes :
          DetectRead(o, d, dr)
    \/ DetectClose
    \/ \E t \in ClockDeltas : Return(t)

Spec == Init /\ [][Next]_vars

\* ------------------------------------------------- a scan under fairness
\* The steps of a scan that are bound to happen.  A step that runs without
\* waiting happens because the event loop runs every ready task.  A step
\* that ends a wait happens when the code bounds the wait: wait_for(...,
\* timeout=self.timeout) around open_connection, wait_for(..., timeout=1)
\* around drain and read, sock.settimeout(self.timeout) before connect_ex
\* and recvfrom, wait_for with probe_timeout, 0.8 and 1.2 in
\* service_detection.  await writer.wait_closed() is bounded by nothing in
\* tcp_connect_scan and in service_detection: when it ends is up to the
\* transport and, on a TLS connection, to the peer, so TcpClose and
\* DetectClose are not among them.
BoundedSteps ==
    /\ WF_vars(\E p \in Ports : TcpStart(p))
    /\ WF_vars(\E p \in Ports, o \in ConnectOutcomes, rt \in Ticks :
                  TcpConnectDone(p, o, rt))
    /\ WF_vars(\E p \in Ports, g \in GrabOutcomes, d \in Payloads :
                  TcpBannerGrab(p, g, d))
    /\ WF_vars(\E p \in Ports : SynStart(p))
    /\ WF_vars(\E p \in Ports, o \in SynOutcomes, e \in Ticks :
                  SynDone(p, o, e))
    /\ WF_vars(\E p \in Ports : UdpStart(p))
    /\ WF_vars(\E p \in Ports, o \in UdpOutcomes, e \in Ticks :
                  UdpDone(p, o, e))
    /\ WF_vars(GatherReturn)
    /\ WF_vars(ProcessResult)
    /\ WF_vars(\E o \in {"connected", "failed"} : DetectConnect(o))
    /\ WF_vars(\E o \in ReadOutcomes, d \in Payloads,
                  w \in {"ok", "raises"} : DetectListen(o, d, w))
    /\ WF_vars(\E o \in ReadOutcomes, d \in Payloads,
                  dr \in DrainOutcomes : DetectRead(o, d, dr))
    /\ WF_vars(\E t \in ClockDeltas : Return(t))

SpecLive == Init /\ [][Next]_vars /\ BoundedSteps

\* ------------------------------------------- service_detection called alone
\* service_detection is a public coroutine: a caller may hand it any
\* PortScanResult.  The results handed in by the modelled caller.
DirectResults ==
    {PortScanResult(TargetHost, p, s, IF s = "open" THEN ServiceOf(p) ELSE "",
                    0, b) :
        p \in {COMMON_PORTS[1], COMMON_PORTS[6]}, s \in Statuses,
        b \in {<<>>, <<"o", "k">>}}

\* The call entered without the test of the status.
ServiceDetectionUntested(result) ==
    /\ pc = "idle"
    /\ entry' = "service_detection"
    /\ pc' = "process"
    /\ ports_to_scan' = <<result.port>>
    /\ probe' = [p \in {result.port} |->
                    [NewProbe EXCEPT !.stage = "collected"]]
    /\ task_result' = [p \in {result.port} |-> result]
    /\ elapsed' = [p \in {result.port} |-> 0]
    /\ results' = <<result>>
    /\ valid_results' = <<result>>
    /\ idx' = 1
    /\ sd' = SdConnect
    /\ detected' = None
    /\ detections' = <<>>
    /\ UNCHANGED <<max_workers, timeout, scan_results, args, technique_times,
                   out_of_order, metrics>>
    /\ UNCHANGED toolVars

\* The call of service_detection(result) up to its first await: a result
\* that is not open is returned at once, for an open one the connection is
\* requested.  task_result keeps the result as it was handed in, results
\* and valid_results hold the object the detector works on.
service_detection(result) ==
    /\ pc = "idle"
    /\ entry' = "service_detection"
    /\ pc' = "process"
    /\ ports_to_scan' = <<result.port>>
    /\ probe' = [p \in {result.port} |->
                    [NewProbe EXCEPT !.stage = "collected"]]
    /\ task_result' = [p \in {result.port} |-> result]
    /\ elapsed' = [p \in {result.port} |-> 0]
    /\ results' = <<result>>
    /\ valid_results' = <<result>>
    /\ IF result.status # "open"
       THEN /\ idx' = 2
            /\ sd' = SdIdle
            /\ detected' = [port |-> result.port, path |-> "not_open",
                            failures |-> {}]
            /\ detections' = (result.port :> result)
       ELSE /\ idx' = 1
            /\ sd' = SdConnect
            /\ detected' = None
            /\ detections' = <<>>
    /\ UNCHANGED <<max_workers, timeout, scan_results, args, technique_times,
                   out_of_order, metrics>>
    /\ UNCHANGED toolVars

\* PortScanner(timeout=t): the caller constructs its scanner with a timeout
\* of its choice.
PortScanner(t) ==
    /\ pc = "idle"
    /\ timeout' = t
    /\ scan_results' = <<>>
    /\ UNCHANGED <<max_workers, pc, entry, args, ports_to_scan, metrics>>
    /\ UNCHANGED gatherVars
    /\ UNCHANGED processVars
    /\ UNCHANGED toolVars

\* What the peer of a direct call may send in one read: also the first
\* lines of an HTTP response, whose lines end in CR LF, and of an SSH
\* greeting whose lines end in LF.
DetectPayloads ==
    Payloads \cup {<<"H", "T", "T", "P", "\r", "\n", "x">>,
                   <<"S", "S", "H", "\n", "x">>}

NextDetect ==
    \/ \E t \in Timeouts : PortScanner(t)
    \/ \E r \in DirectResults : service_detection(r)
    \/ \E o \in {"connected", "failed"} : DetectConnect(o)
    \/ \E o \in ReadOutcomes, d \in DetectPayloads, w \in {"ok", "raises"} :
          DetectListen(o, d, w)
    \/ \E o \in ReadOutcomes, d \in DetectPayloads, dr \in DrainOutcomes :
          DetectRead(o, d, dr)
    \/ DetectClose

SpecDetect == Init /\ [][NextDetect]_vars

\* ----------------------------------------- metrics.py: MetricsCollector
\* The arguments the modelled callers record scans with.
Targets == {"a.example.com", "b.example.com"}
ServiceLists == {<<>>, <<"HTTP", "HTTP">>, <<"HTTP", "HTTPS", "HTTP-Alt">>}
ClosedLists == {<<>>, <<21, 23>>}

\* The ground truths handed to calculate_precision_recall: dictionaries from
\* target to the list of the services expected there.
GroundTruths ==
    {[t \in {} |-> <<>>],
     [t \in {"a.example.com"} |-> <<"HTTP", "HTTPS">>],
     [t \in Targets |-> IF t = "a.example.com" THEN <<"HTTPS", "SSH">>
                        ELSE <<>>]}

\* record_scan appends to the four lists.  The timestamp of the entry, which
\* nothing reads, is left out.
record_scan(target, open_ports, closed_ports, filtered_ports, services, scan_time, memory_used) ==
    /\ Len(collector.scan_results) < MaxScans
    /\ collector' =
           [scan_results |->
                Append(collector.scan_results,
                       [target |-> target, open_ports |-> open_ports,
                        closed_ports |-> closed_ports,
                        filtered_ports |-> filtered_ports,
                        services |-> services]),
            scan_times |-> Append(collector.scan_times, scan_time),
            services_found |-> collector.services_found \o services,
            memory_usage |-> Append(collector.memory_usage, memory_used)]
    /\ confusion' = None
    /\ UNCHANGED scannerVars
    /\ UNCHANGED <<bench, batch, calls>>

\* set(ground_truth_services.get(target, []))
Expected(ground_truth, target) ==
    IF target \in DOMAIN ground_truth THEN SeqToSet(ground_truth[target])
    ELSE {}

\* The counts of one scan taken from the list of its services, a service
\* listed twice counted twice.
CountScanOfList(scan, ground_truth) ==
    LET expected == Expected(ground_truth, scan.target)
        hits == {i \in 1..Len(scan.services) : scan.services[i] \in expected}
    IN  [tp |-> Cardinality(hits),
         fp |-> Len(scan.services) - Cardinality(hits),
         fn |-> Cardinality(expected \ SeqToSet(scan.services)),
         tn |-> Len(scan.closed_ports)]

\* One turn of the loop over self.scan_results: what the scan adds to tp,
\* fp, fn and tn.
CountScan(scan, ground_truth) ==
    LET found_services == SeqToSet(scan.services)
        expected_services == Expected(ground_truth, scan.target)
    IN  [tp |-> Cardinality(found_services \cap expected_services),
         fp |-> Cardinality(found_services \ expected_services),
         fn |-> Cardinality(expected_services \ found_services),
         tn |-> Len(scan.closed_ports)]

\* The loop over self.scan_results, from tp = fp = fn = tn = 0.
RECURSIVE CountScans(_, _)
CountScans(scans, ground_truth) ==
    IF scans = <<>> THEN [tp |-> 0, fp |-> 0, fn |-> 0, tn |-> 0]
    ELSE LET rest == CountScans(SubSeq(scans, 1, Len(scans) - 1),
                                ground_truth)
             last == CountScan(scans[Len(scans)], ground_truth)
         IN  [tp |-> rest.tp + last.tp, fp |-> rest.fp + last.fp,
              fn |-> rest.fn + last.fn, tn |-> rest.tn + last.tn]

\* Rational numbers are kept as fractions.
Zero == [num |-> 0, den |-> 1]
FracAdd(a, b) == [num |-> a.num * b.den + b.num * a.den,
                  den |-> a.den * b.den]
FracMul(a, b) == [num |-> a.num * b.num, den |-> a.den * b.den]
FracDiv(a, b) == [num |-> a.num * b.den, den |-> a.den * b.num]
FracPositive(a) == a.num * a.den > 0
\* a > b, for fractions with positive denominators
FracGreater(a, b) == a.num * b.den > b.num * a.den

\* The quotient without the test of its denominator.
RatioUnguarded(n, d) == [num |-> n, den |-> d]

\* n / d if d > 0 else 0
Ratio(n, d) == IF d > 0 THEN [num |-> n, den |-> d] ELSE Zero

\* 2 * (precision * recall) / (precision + recall)
\*     if (precision + recall) > 0 else 0
F1Score(precision, recall) ==
    IF FracPositive(FracAdd(precision, recall))
    THEN FracDiv(FracMul([num |-> 2, den |-> 1],
                         FracMul(precision, recall)),
                 FracAdd(precision, recall))
    ELSE Zero

\* calculate_precision_recall returns its dictionary; ground_truth keeps
\* the argument of the call next to it.
calculate_precision_recall(ground_truth_services) ==
    LET n == CountScans(collector.scan_results, ground_truth_services)
        total == n.tp + n.fp + n.fn + n.tn
        precision == Ratio(n.tp, n.tp + n.fp)
        recall == Ratio(n.tp, n.tp + n.fn)
    IN  /\ confusion' =
               [kind |-> "dict", ground_truth |-> ground_truth_services,
                precision |-> precision, recall |-> recall,
                f1_score |-> F1Score(precision, recall),
                accuracy |-> Ratio(n.tp + n.tn, total),
                tp |-> n.tp, fp |-> n.fp, fn |-> n.fn, tn |-> n.tn]
        /\ UNCHANGED collector
        /\ UNCHANGED scannerVars
        /\ UNCHANGED <<bench, batch, calls>>

NextMetrics ==
    \/ \E t \in Targets, s \in ServiceLists, c \in ClosedLists :
          record_scan(t, <<80>>, c, <<>>, s, 1, 1)
    \/ \E g \in GroundTruths : calculate_precision_recall(g)

SpecMetrics == Init /\ [][NextMetrics]_vars

\* ------------------------------------------- benchmark.py: BenchmarkSuite
\* What benchmark_custom_scanner meets: the scan and the measurements go
\* through, or something inside its try raises.
CustomOutcomes == {"ok", "error"}

\* What the benchmark of an external tool meets.  At the version check: the
\* executable is missing (FileNotFoundError), it exits non-zero
\* (CalledProcessError), or it cannot be executed (PermissionError, which
\* the check does not catch).  At the scan: the tool exits with status 0,
\* it exits non-zero having printed no port (subprocess.run is called
\* without check), it runs into the timeout, or subprocess.run raises.
ToolOutcomes == {"missing", "broken", "denied", "ok", "exit_error",
                 "timeout", "error"}

\* The outcomes after which the benchmark builds a ComparisonMetrics, the
\* outcomes that leave _check_*_installed through an exception it does not
\* catch; after every other outcome the benchmark returns None.
Measured == {"ok", "exit_error"}
Uncaught == {"denied"}

\* The number of ports benchmark_custom_scanner scans:
\* max(COMMON_PORTS) - min(COMMON_PORTS) + 1.
CustomRange ==
    LET S == SeqToSet(COMMON_PORTS)
        hi == CHOOSE p \in S : \A q \in S : q <= p
        lo == CHOOSE p \in S : \A q \in S : p <= q
    IN  hi - lo + 1

ComparisonMetrics(tool_name, total_time, ports, open_ports, accuracy_score, detection_confidence) ==
    [tool_name |-> tool_name, host |-> TargetHost,
     scan_type |-> "common_ports", total_time |-> total_time,
     ports_per_second |-> Ratio(ports, total_time),
     open_ports_detected |-> open_ports,
     accuracy_score |-> accuracy_score,
     detection_confidence |-> detection_confidence]

\* if x_result: results[name] = asdict(x_result)
Store(entries, result) ==
    IF result = None THEN entries ELSE Append(entries, result)

\* await self.benchmark_custom_scanner() and the storing of its result.
benchmark_custom_scanner(o, elapsed_time, open_ports) ==
    /\ bench.stage = "idle"
    /\ LET custom_result ==
               IF o = "ok"
               THEN ComparisonMetrics("Custom Scanner", elapsed_time,
                        CustomRange, open_ports, 95,
                        IF open_ports > 0 THEN 98 ELSE 90)
               ELSE None
       IN  bench' = [bench EXCEPT
                        !.stage = "nmap",
                        !.met = Append(@, o),
                        !.results = Store(@, custom_result)]
    /\ UNCHANGED scannerVars
    /\ UNCHANGED <<collector, confusion, batch, calls>>

\* self.benchmark_nmap() and the storing of its result; ports is the number
\* of port states counted in the tool's output.
benchmark_nmap(o, elapsed_time, ports, open_count) ==
    /\ bench.stage = "nmap"
    /\ LET nmap_result ==
               IF o \in Measured
               THEN ComparisonMetrics("Nmap", elapsed_time,
                        IF o = "ok" THEN ports ELSE 0,
                        IF o = "ok" THEN open_count ELSE 0, 98, 99)
               ELSE None
       IN  bench' = [bench EXCEPT
                        !.stage = IF o \in Uncaught THEN "raised"
                                  ELSE "masscan",
                        !.met = Append(@, o),
                        !.results = Store(@, nmap_result)]
    /\ UNCHANGED scannerVars
    /\ UNCHANGED <<collector, confusion, batch, calls>>

\* self.benchmark_masscan() and the storing of its result; the rate is
\* taken over len(COMMON_PORTS) whatever the tool printed.
benchmark_masscan(o, elapsed_time, open_count) ==
    /\ bench.stage = "masscan"
    /\ LET masscan_result ==
               IF o \in Measured
               THEN ComparisonMetrics("Masscan", elapsed_time,
                        Len(COMMON_PORTS),
                        IF o = "ok" THEN open_count ELSE 0, 85, 80)
               ELSE None
       IN  bench' = [bench EXCEPT
                        !.stage = IF o \in Uncaught THEN "raised"
                                  ELSE "report",
                        !.met = Append(@, o),
                        !.results = Store(@, masscan_result)]
    /\ UNCHANGED scannerVars
    /\ UNCHANGED <<collector, confusion, batch, calls>>

\* The three sort keys of an entry of results.
SpeedKey(data) == data.ports_per_second
AccuracyKey(data) == [num |-> data.accuracy_score, den |-> 1]
\* accuracy_score / total_time if total_time > 0 else 0
EfficiencyKey(data) == Ratio(data.accuracy_score, data.total_time)

\* The insertion in ascending order.
InsertAsc(sorted, x, key) ==
    LET before == {i \in 1..Len(sorted) : FracGreater(key[sorted[i]], key[x])}
        k == IF before = {} THEN Len(sorted) + 1
             ELSE CHOOSE i \in before : \A j \in before : i <= j
    IN  SubSeq(sorted, 1, k - 1) \o <<x>> \o SubSeq(sorted, k, Len(sorted))

\* sorted(..., reverse=True) is stable: x goes behind every position whose
\* key is not smaller than its own.
InsertDesc(sorted, x, key) ==
    LET before == {i \in 1..Len(sorted) : FracGreater(key[x], key[sorted[i]])}
        k == IF before = {} THEN Len(sorted) + 1
             ELSE CHOOSE i \in before : \A j \in before : i <= j
    IN  SubSeq(sorted, 1, k - 1) \o <<x>> \o SubSeq(sorted, k, Len(sorted))

\* sorted(results.items(), key=..., reverse=True), as the positions of the
\* items in the dictionary; key gives the key of each position.
RECURSIVE SortedDesc(_, _)
SortedDesc(n, key) ==
    IF n = 0 THEN <<>> ELSE InsertDesc(SortedDesc(n - 1, key), n, key)

\* The report of no results: an empty dictionary.
EmptyReport == [k \in {} |-> <<>>]

\* The report over entries, the items of the results dictionary in the order
\* they were stored.  The static recommendation texts are left out.
_generate_comparison_report(entries) ==
    IF entries = <<>> THEN EmptyReport
    ELSE
    LET n == Len(entries)
        speed_sorted ==
            SortedDesc(n, [i \in 1..n |-> SpeedKey(entries[i])])
        accuracy_sorted ==
            SortedDesc(n, [i \in 1..n |-> AccuracyKey(entries[i])])
        efficiency_sorted ==
            SortedDesc(n, [i \in 1..n |-> EfficiencyKey(entries[i])])
    IN  [speed_ranking |->
             [i \in 1..n |->
                 LET data == entries[speed_sorted[i]] IN
                 [tool |-> data.tool_name,
                  ports_per_second |-> data.ports_per_second,
                  total_time |-> data.total_time]],
         accuracy_ranking |->
             [i \in 1..n |->
                 LET data == entries[accuracy_sorted[i]] IN
                 [tool |-> data.tool_name,
                  accuracy_score |-> data.accuracy_score,
                  open_ports |-> data.open_ports_detected,
                  detection_confidence |-> data.detection_confidence]],
         efficiency_ranking |->
             [i \in 1..n |->
                 LET data == entries[efficiency_sorted[i]] IN
                 [tool |-> data.tool_name,
                  efficiency_score |-> EfficiencyKey(data),
                  accuracy |-> data.accuracy_score,
                  time |-> data.total_time]],
         overall_winner |-> entries[efficiency_sorted[1]].tool_name]

\* The report is generated and run_comprehensive_benchmark returns.
run_comprehensive_benchmark ==
    /\ bench.stage = "report"
    /\ bench' = [bench EXCEPT
                    !.stage = "done",
                    !.report = _generate_comparison_report(bench.results)]
    /\ UNCHANGED scannerVars
    /\ UNCHANGED <<collector, confusion, batch, calls>>

NextBenchmark ==
    \/ \E o \in CustomOutcomes, t \in ClockDeltas, n \in {0, 1} :
          benchmark_custom_scanner(o, t, n)
    \/ \E o \in ToolOutcomes, t \in ClockDeltas,
          ports \in {0, Len(COMMON_PORTS)}, n \in {0, 1} :
          n <= ports /\ benchmark_nmap(o, t, ports, n)
    \/ \E o \in ToolOutcomes, t \in ClockDeltas, n \in {0, 1} :
          benchmark_masscan(o, t, n)
    \/ run_comprehensive_benchmark

SpecBenchmark == Init /\ [][NextBenchmark]_vars

\* ---------------------------------------------- engine.py: scan_subdomains
\* The hostnames and the port lists the modelled callers hand in.  A port
\* list is not empty: an absent one is replaced by COMMON_PORTS, an empty
\* one makes the call scan ports 1 to 65535.
Hostnames == {"a.example.com", "b.example.com"}
HostLists == UNION {[1..n -> Hostnames] : n \in 0..MaxHosts}
PortLists == {<<FirstPort, FirstPort + 2>>, <<FirstPort + 1, FirstPort + 2>>}

\* What socket.gethostbyname does: it returns an address, raises
\* socket.gaierror, or raises something else (UnicodeError for an ill-formed
\* name).
ResolveOutcomes == {"resolved", "gaierror", "error"}
\* The address a hostname resolves to, a string.
IpOf(h) == [kind |-> "str",
            text |-> IF h = "a.example.com" THEN "192.0.2.1"
                     ELSE "192.0.2.2"]

\* min(ports), max(ports)
MinOf(ports) == CHOOSE x \in SeqToSet(ports) : \A y \in SeqToSet(ports) : x <= y
MaxOf(ports) == CHOOSE x \in SeqToSet(ports) : \A y \in SeqToSet(ports) : x >= y

\* The ports the inner scan_port_range probes for the port list ports.
ScannedRange(ports) == Worklist(MinOf(ports), MaxOf(ports), FALSE)

\* What the awaited scan_port_range meets on each port it probes, the time
\* it measures, and whether it raises instead of returning.
ProbeStatuses == {"open", "closed"}
ScanTimes == {1, 3}

\* The list scan_port_range returns for host ip when the port q has the
\* status st[q]: one result per port of its worklist, in worklist order.
RangeResults(ip, ports, st) ==
    LET wl == ScannedRange(ports) IN
    [i \in 1..Len(wl) |->
        PortScanResult(ip, wl[i], st[wl[i]],
                       IF st[wl[i]] = "open" THEN ServiceOf(wl[i]) ELSE "",
                       0, <<>>)]

\* The ScanMetrics scan_port_range returns with that list.
RangeMetrics(ip, valid, total_time) ==
    [ScanMetrics(valid,
                 TechniqueBreakdown(
                     [NewTechniqueTimes EXCEPT
                          !["tcp_connect"].count = Len(valid)]),
                 total_time)
        EXCEPT !.host = ip]

\* results[subdomain] = entry
SetEntry(entries, subdomain, e) ==
    [h \in (DOMAIN entries) \cup {subdomain} |->
        IF h = subdomain THEN e ELSE entries[h]]

ErrorEntry(message) ==
    [error |-> message, ip |-> None, ports |-> <<>>, metrics |-> None]

\* The call of scan_subdomains(subdomains, ports) up to its loop.
scan_subdomains(subdomains, ports) ==
    /\ batch.stage = "idle"
    /\ batch' = [BatchIdle EXCEPT !.stage = "loop",
                                  !.subdomains = subdomains,
                                  !.ports = ports,
                                  !.i = 1]
    /\ UNCHANGED scannerVars
    /\ UNCHANGED <<collector, confusion, bench, calls>>

\* The turn of the loop ended at the first hostname that does not resolve.
ResolveFailureAborts(o) ==
    /\ batch.stage = "loop"
    /\ batch.i <= Len(batch.subdomains)
    /\ LET subdomain == batch.subdomains[batch.i] IN
       IF o = "resolved"
       THEN batch' = [batch EXCEPT !.stage = "scanning",
                                   !.ip = IpOf(subdomain)]
       ELSE batch' = [batch EXCEPT
                          !.results = SetEntry(@, subdomain,
                              ErrorEntry(IF o = "gaierror"
                                         THEN "Could not resolve domain"
                                         ELSE "str(e)")),
                          !.met = Append(@, o),
                          !.probed = Append(@, {}),
                          !.i = Len(batch.subdomains) + 1]
    /\ UNCHANGED scannerVars
    /\ UNCHANGED <<collector, confusion, bench, calls>>

\* One turn of the loop up to its await: the hostname is resolved.  A
\* gaierror stores the entry of a failure and goes on to the next hostname
\* (continue), any other exception does the same from the outer except; an
\* address is handed to scan_port_range, which is awaited.
Resolve(o) ==
    /\ batch.stage = "loop"
    /\ batch.i <= Len(batch.subdomains)
    /\ LET subdomain == batch.subdomains[batch.i] IN
       IF o = "resolved"
       THEN batch' = [batch EXCEPT !.stage = "scanning",
                                   !.ip = IpOf(subdomain)]
       ELSE batch' = [batch EXCEPT
                          !.results = SetEntry(@, subdomain,
                              ErrorEntry(IF o = "gaierror"
                                         THEN "Could not resolve domain"
                                         ELSE "str(e)")),
                          !.met = Append(@, o),
                          !.probed = Append(@, {}),
                          !.i = @ + 1]
    /\ UNCHANGED scannerVars
    /\ UNCHANGED <<collector, confusion, bench, calls>>

\* The awaited scan_port_range raises: the outer except stores the entry of
\* a failure and the loop goes on.
ScanRaises ==
    /\ batch.stage = "scanning"
    /\ batch' = [batch EXCEPT
                     !.stage = "loop",
                     !.ip = None,
                     !.results = SetEntry(@, batch.subdomains[batch.i],
                                          ErrorEntry("str(e)")),
                     !.met = Append(@, "raised"),
                     !.probed = Append(@, SeqToSet(ScannedRange(batch.ports))),
                     !.i = @ + 1]
    /\ UNCHANGED scannerVars
    /\ UNCHANGED <<collector, confusion, bench, calls>>

\* The awaited scan_port_range returns: its results are filtered to the
\* requested ports, the entry is stored with the metrics as they came, and
\* the metrics are appended to all_metrics.
ScanReturns(st, total_time) ==
    /\ batch.stage = "scanning"
    /\ LET returned == RangeResults(batch.ip, batch.ports, st)
           m == RangeMetrics(batch.ip, returned, total_time)
           kept == SelectSeq(returned,
                             LAMBDA r : r.port \in SeqToSet(batch.ports))
       IN  batch' = [batch EXCEPT
                         !.stage = "loop",
                         !.ip = None,
                         !.results = SetEntry(@, batch.subdomains[batch.i],
                                         [ip |-> batch.ip, ports |-> kept,
                                          metrics |-> m]),
                         !.all_metrics = Append(@, m),
                         !.met = Append(@, "scanned"),
                         !.probed =
                             Append(@, SeqToSet(ScannedRange(batch.ports))),
                         !.i = @ + 1]
    /\ UNCHANGED scannerVars
    /\ UNCHANGED <<collector, confusion, bench, calls>>

\* sum(m.total_time for m in all_metrics)
RECURSIVE SumTotalTime(_)
SumTotalTime(ms) ==
    IF ms = <<>> THEN 0 ELSE Head(ms).total_time + SumTotalTime(Tail(ms))

\* The summary of the returned dictionary.
Summary(subdomains, entries, all_metrics) ==
    [total_subdomains_scanned |-> Len(subdomains),
     successful_scans |->
         Cardinality({h \in DOMAIN entries : entries[h].ip # None}),
     total_open_ports |->
         SumOver([h \in DOMAIN entries |->
                     IF entries[h].metrics # None
                     THEN entries[h].metrics.open_ports_found ELSE 0],
                 DOMAIN entries),
     average_scan_time |->
         IF all_metrics # <<>>
         THEN [num |-> SumTotalTime(all_metrics), den |-> Len(all_metrics)]
         ELSE [num |-> 0, den |-> 1]]

\* The loop is over: scan_subdomains returns results and summary.
BatchReturn ==
    /\ batch.stage = "loop"
    /\ batch.i > Len(batch.subdomains)
    /\ batch' = [batch EXCEPT
                     !.stage = "done",
                     !.summary = Summary(batch.subdomains, batch.results,
                                         batch.all_metrics)]
    /\ UNCHANGED scannerVars
    /\ UNCHANGED <<collector, confusion, bench, calls>>

NextSubdomains ==
    \/ \E hs \in HostLists, ps \in PortLists : scan_subdomains(hs, ps)
    \/ \E o \in ResolveOutcomes : Resolve(o)
    \/ ScanRaises
    \/ \E st \in [FirstPort..(FirstPort + 2) -> ProbeStatuses],
          t \in ScanTimes : ScanReturns(st, t)
    \/ BatchReturn

SpecSubdomains == Init /\ [][NextSubdomains]_vars

\* ------------------------------ scan_port_range calls sharing one scanner
\* Two callers use one PortScanner object, each for a host of its own; a
\* call may start while the other is suspended at any of its awaits, or
\* after it.
HostOf(c) == IF c = 1 THEN "host-a" ELSE "host-b"
DetectedBanners == {<<>>, <<"o", "k">>}

\* The list the loop of call c appends to, taken from the object.
ListOnObject(c) == scan_results

\* valid_results, a local of the call: the list its loop appends to.
ValidResults(c) == calls[c].valid_results

\* Another call is suspended somewhere between its start and its return.
OtherRunning(c) ==
    \E o \in CallIds \ {c} : calls[o].stage \in {"gather", "process", "detect"}

\* Call c enters scan_port_range(HostOf(c), FirstPort, end_port):
\* self.scan_results is emptied, the tasks are created and gather awaited.
CallScanPortRange(c, end_port) ==
    /\ calls[c].stage \in {"idle", "done"}
    /\ scan_results' = <<>>
    /\ calls' = [o \in CallIds |->
                    IF o = c
                    THEN [CallIdle EXCEPT
                              !.stage = "gather",
                              !.worklist =
                                  Worklist(FirstPort, end_port, FALSE),
                              !.overlapped = OtherRunning(c),
                              !.found = (scan_results # <<>>)]
                    ELSE [calls[o] EXCEPT
                              !.overlapped =
                                  @ \/ calls[o].stage
                                           \in {"gather", "process", "detect"}]]
    /\ UNCHANGED <<max_workers, timeout, pc, entry, args, ports_to_scan,
                   metrics>>
    /\ UNCHANGED gatherVars
    /\ UNCHANGED processVars
    /\ UNCHANGED <<collector, confusion, bench, batch>>

\* The gather of call c returns: one result per port of its worklist, with
\* the status st the probe of the port met.
CallGatherReturn(c, st) ==
    /\ calls[c].stage = "gather"
    /\ calls' = [calls EXCEPT
                     ![c].stage = "process",
                     ![c].results =
                         RangeResults(HostOf(c), calls[c].worklist, st),
                     ![c].banners = [i \in 1..Len(calls[c].worklist) |-> <<>>],
                     ![c].idx = 1]
    /\ UNCHANGED scannerVars
    /\ UNCHANGED <<collector, confusion, bench, batch>>

\* One turn of the loop of call c up to its await or its end: an open
\* result goes to service_detection, any other is appended.
CallProcessResult(c) ==
    /\ calls[c].stage = "process"
    /\ calls[c].idx <= Len(calls[c].results)
    /\ LET r == calls[c].results[calls[c].idx] IN
       IF IsOpen(r)
       THEN calls' = [calls EXCEPT ![c].stage = "detect"]
       ELSE calls' = [calls EXCEPT
                          ![c].valid_results = Append(ValidResults(c), r),
                          ![c].idx = @ + 1]
    /\ UNCHANGED scannerVars
    /\ UNCHANGED <<collector, confusion, bench, batch>>

\* service_detection returns to call c with the banner it read (none when
\* it read nothing); the result is appended.
CallDetectReturn(c, banner) ==
    /\ calls[c].stage = "detect"
    /\ LET r == calls[c].results[calls[c].idx] IN
       calls' = [calls EXCEPT
                     ![c].stage = "process",
                     ![c].banners[calls[c].idx] = banner,
                     ![c].valid_results =
                         Append(ValidResults(c), StoreBanner(r, banner)),
                     ![c].idx = @ + 1]
    /\ UNCHANGED scannerVars
    /\ UNCHANGED <<collector, confusion, bench, batch>>

\* The loop of call c is over: the metrics are computed from its locals,
\* self.scan_results is set and the call returns.
CallReturn(c, total_time) ==
    /\ calls[c].stage = "process"
    /\ calls[c].idx > Len(calls[c].results)
    /\ scan_results' = calls[c].valid_results
    /\ calls' = [calls EXCEPT
                     ![c].stage = "done",
                     ![c].returned =
                         [results |-> calls[c].valid_results,
                          metrics |-> RangeMetrics(HostOf(c),
                                          calls[c].valid_results,
                                          total_time)]]
    /\ UNCHANGED <<max_workers, timeout, pc, entry, args, ports_to_scan,
                   metrics>>
    /\ UNCHANGED gatherVars
    /\ UNCHANGED processVars
    /\ UNCHANGED <<collector, confusion, bench, batch>>

NextConcurrent ==
    \/ \E c \in CallIds, b \in {FirstPort, FirstPort + 1} :
          CallScanPortRange(c, b)
    \/ \E c \in CallIds, st \in [FirstPort..(FirstPort + 1) -> ProbeStatuses] :
          CallGatherReturn(c, st)
    \/ \E c \in CallIds : CallProcessResult(c)
    \/ \E c \in CallIds, b \in DetectedBanners : CallDetectReturn(c, b)
    \/ \E c \in CallIds, t \in ScanTimes : CallReturn(c, t)

SpecConcurrent == Init /\ [][NextConcurrent]_vars

\* ------------------------------------------------------------- properties
RangeScanDone == pc = "done" /\ entry = "scan_port_range"
RequestedPorts == args.start_port..args.end_port

\* The positions of the returned list that hold a result for port p.
Reported(p) == {i \in 1..Len(valid_results) : valid_results[i].port = p}

\* The result the last finished detection handed back.
Detected == valid_results[CHOOSE i \in 1..Len(valid_results) :
                              valid_results[i].port = detected.port]

\* C1: a completed scan_port_range returns exactly one result for every port
\* of the requested range and for no other port, so total_ports_scanned is
\* end_port - start_port + 1, whatever the probes met.
C1_OneResultPerPort ==
    RangeScanDone =>
        /\ \A p \in RequestedPorts : Cardinality(Reported(p)) = 1
        /\ \A i \in 1..Len(valid_results) :
               valid_results[i].port \in RequestedPorts
        /\ metrics.total_ports_scanned =
               args.end_port - args.start_port + 1

\* C2: every ScanMetrics produced by either entry point has
\* total_ports_scanned = open_ports_found + closed_ports + filtered_ports,
\* and every returned result falls in exactly one of the three buckets.
C2_BucketsPartition ==
    pc = "done" =>
        /\ metrics.total_ports_scanned =
               metrics.open_ports_found + metrics.closed_ports
                   + metrics.filtered_ports
        /\ \A i \in 1..Len(valid_results) :
               LET r == valid_results[i] IN
               Cardinality({b \in {"open", "closed", "filtered"} :
                   \/ b = "open" /\ IsOpen(r)
                   \/ b = "closed" /\ IsClosed(r)
                   \/ b = "filtered" /\ HasFiltered(r)}) = 1

\* A completed scan whose results mix open and open|filtered.
C2_Witness ==
    /\ pc = "done"
    /\ \E i, j \in 1..Len(valid_results) :
           /\ valid_results[i].status = "open|filtered"
           /\ valid_results[j].status = "open"
    /\ metrics.filtered_ports > 0

\* C3: the number of probes in flight never exceeds max_workers.
C3_ConcurrencyCap == InFlight <= max_workers

\* C4: the totals and the per-technique count and time sum of a completed
\* scan_port_range are determined by what each port's probe returned and
\* how long it took, whatever the order in which the probes completed.
C4_OrderIndependent ==
    RangeScanDone =>
        LET returned == {p \in Ports : IsResult(task_result[p])}
            expected == [t \in MetricTechniques |->
                            IF t = ProbeKind
                            THEN [count |-> Cardinality(Ports),
                                  time |-> SumOver(elapsed, Ports)]
                            ELSE [count |-> 0, time |-> 0]]
        IN  /\ technique_times = expected
            /\ \A t \in MetricTechniques :
                   /\ metrics.technique_breakdown[t].count = expected[t].count
                   /\ metrics.technique_breakdown[t].time = expected[t].time
            /\ metrics.total_ports_scanned = Cardinality(returned)
            /\ metrics.open_ports_found =
                   Cardinality({p \in returned : IsOpen(task_result[p])})
            /\ metrics.closed_ports =
                   Cardinality({p \in returned : IsClosed(task_result[p])})
            /\ metrics.filtered_ports =
                   Cardinality({p \in returned : HasFiltered(task_result[p])})

\* A completed scan in which a probe finished before one created earlier
\* and the probes took different times.
C4_Witness ==
    /\ RangeScanDone
    /\ out_of_order
    /\ \E p, q \in Ports : elapsed[p] # elapsed[q]

\* C5: every probe that finished returned a result with one of the four
\* statuses and a response time >= 0; none returned nothing.
C5_ProbesTotal ==
    \A p \in Ports :
        probe[p].stage = "done" =>
            /\ IsResult(task_result[p])
            /\ task_result[p].status \in Statuses
            /\ task_result[p].response_time >= 0

\* C6: in a completed syn scan, every port whose SYN-style probe raised
\* (syn_scan_sync returned None for it) is reported with a result, the one
\* of the TCP connect probe run instead.
C6_SynFallback ==
    (RangeScanDone /\ args.technique = "syn") =>
        \A p \in Ports :
            task_result[p] = None => Reported(p) # {}

\* C7: tcp_connect_scan reports open when the handshake completed, closed
\* when it was refused and filtered when it timed out or failed otherwise;
\* nothing after a completed handshake changes the open.
C7_ConnectDecides ==
    \A p \in Ports :
        (ProbeKind = "tcp_connect" /\ probe[p].stage = "done") =>
            /\ IsResult(task_result[p])
            /\ task_result[p].status =
                   IF probe[p].outcome = "connected" THEN "open"
                   ELSE IF probe[p].outcome = "refused" THEN "closed"
                   ELSE "filtered"

\* C8: udp_scan reports open exactly when a reply arrived; when its wait
\* for a reply timed out it reports open|filtered; a port that did not
\* reply is never reported open, closed or filtered.
C8_UdpAmbiguity ==
    \A p \in Ports :
        (ProbeKind = "udp" /\ probe[p].stage = "done") =>
            LET r == task_result[p] o == probe[p].outcome IN
            /\ (IsResult(r) /\ r.status = "open") <=> (o = "reply")
            /\ o = "timeout" => (IsResult(r) /\ r.status = "open|filtered")
            /\ (o # "reply" /\ IsResult(r)) =>
                   r.status \notin {"open", "closed", "filtered"}

\* A UDP scan in which one port replied and another stayed silent.
C8_Witness ==
    /\ ProbeKind = "udp"
    /\ \E p, q \in Ports :
           /\ probe[p].stage = "done" /\ probe[p].outcome = "reply"
           /\ probe[q].stage = "done" /\ probe[q].outcome = "timeout"

\* C9: under the connect-based techniques (tcp_connect, hybrid, syn) a port
\* whose connection attempt was refused is reported closed.
C9_RefusedIsClosed ==
    \A p \in Ports :
        (/\ ProbeKind \in {"tcp_connect", "syn"}
         /\ probe[p].stage = "done"
         /\ probe[p].outcome = "refused") =>
            (IsResult(task_result[p]) /\ task_result[p].status = "closed")

\* Every result handed over has the status its probe gave it, and a result
\* in detection is open.
StatusKept ==
    /\ \A i \in 1..Len(valid_results) :
           valid_results[i].status =
               task_result[valid_results[i].port].status
    /\ sd.stage # "idle" => Current.status = "open"
    /\ detected # None => Detected.status = "open"

HandedIn == task_result[ports_to_scan[1]]

\* The result of the last finished detection as it was before the call.
Handed == task_result[detected.port]

\* The paths on which service_detection returns from its status test or
\* from its outer except clause.
NoOpPaths == {"not_open", "connect_failed", "io_error"}

SameFields(r, q) ==
    /\ r.host = q.host
    /\ r.port = q.port
    /\ r.status = q.status
    /\ r.service = q.service
    /\ r.version = q.version
    /\ r.banner = q.banner
    /\ r.response_time = q.response_time

ScanEntries == {"scan_port_range", "scan_common_ports"}

\* C12: a completed scan_port_range or scan_common_ports has run
\* service_detection on every open result, and the result it returns for an
\* open port is the one service_detection returned; service_detection is
\* never run on a result that is not open.
C12_OpenResultsDetected ==
    entry \in ScanEntries =>
        /\ pc = "done" =>
               \A i \in 1..Len(valid_results) :
                   LET r == valid_results[i] IN
                   r.status = "open" =>
                       /\ r.port \in DOMAIN detections
                       /\ r = detections[r.port]
        /\ sd.stage # "idle" => Current.status = "open"
        /\ \A p \in DOMAIN detections :
               /\ task_result[p].status = "open"
               /\ detections[p].status = "open"

\* A completed scan_common_ports that returns an open result the detector
\* changed next to a result that is not open.
C12_Witness ==
    /\ pc = "done"
    /\ entry = "scan_common_ports"
    /\ \E i, j \in 1..Len(valid_results) :
           /\ valid_results[i].status = "open"
           /\ valid_results[i] # task_result[valid_results[i].port]
           /\ valid_results[j].status # "open"

\* The well-known ports as a set.
CommonSet == SeqToSet(COMMON_PORTS)

Ascending(s) == \A i, j \in 1..Len(s) : i < j => s[i] < s[j]

C14_CommonPortsAllReported ==
    /\ Cardinality(CommonSet) = Len(COMMON_PORTS)
    /\ entry = "scan_common_ports" =>
           /\ ProbeKind = "tcp_connect"
           /\ ports_to_scan = SubSeq(COMMON_PORTS, 1, MaxPorts)
           /\ pc = "done" =>
                  /\ \A p \in Ports : Cardinality(Reported(p)) = 1
                  /\ \A i \in 1..Len(valid_results) :
                         valid_results[i].port \in Ports
                  /\ metrics.total_ports_scanned = Len(ports_to_scan)

\* A completed scan_common_ports in which one port came out filtered and
\* another open.
C14_Witness ==
    /\ pc = "done"
    /\ entry = "scan_common_ports"
    /\ \E i, j \in 1..Len(valid_results) :
           /\ valid_results[i].status = "filtered"
           /\ valid_results[j].status = "open"

\* C15: in every ScanMetrics ports_per_second is total_ports_scanned /
\* total_time when total_time > 0 and 0 otherwise, and no division by zero
\* happens, an empty scan included.
C15_RateGuarded ==
    pc = "done" =>
        LET rate == metrics.ports_per_second IN
        /\ rate.den # 0
        /\ metrics.total_time > 0 =>
               rate.num * metrics.total_time =
                   metrics.total_ports_scanned * rate.den
        /\ metrics.total_time <= 0 => rate.num = 0

\* A scan that returned results and measured no time at all.
C15_Witness ==
    /\ pc = "done"
    /\ metrics.total_ports_scanned > 0
    /\ metrics.total_time = 0

\* C16: every ScanMetrics carries an entry for the technique that was
\* active, with the number of probes run as count, the sum of their elapsed
\* times as time and time / count (0 when count is 0) as avg_time.
C16_TechniqueEntry ==
    pc = "done" =>
        /\ ProbeKind \in DOMAIN metrics.technique_breakdown
        /\ LET e == metrics.technique_breakdown[ProbeKind] IN
           /\ e.count = Cardinality(Ports)
           /\ e.time = SumOver(elapsed, Ports)
           /\ e.avg_time.den # 0
           /\ e.avg_time.num * (IF e.count > 0 THEN e.count ELSE 1) =
                  (IF e.count > 0 THEN e.time ELSE 0) * e.avg_time.den

\* The scans the collector holds, and their number.
Recorded == collector.scan_results
NScans == Len(collector.scan_results)

\* C17: calculate_precision_recall returns, summed over the recorded scans,
\* TP = |found & expected|, FP = |found - expected|, FN = |expected - found|
\* with found the set of the scan's services and expected the set the
\* ground truth gives for the scan's target (empty when it gives none), and
\* TN = the number of closed ports recorded.
C17_ConfusionCounts ==
    confusion # None =>
        LET gt == confusion.ground_truth
            found == [i \in 1..NScans |-> SeqToSet(Recorded[i].services)]
            expected == [i \in 1..NScans |->
                            IF Recorded[i].target \in DOMAIN gt
                            THEN SeqToSet(gt[Recorded[i].target]) ELSE {}]
        IN  /\ confusion.tp =
                   SumOver([i \in 1..NScans |->
                               Cardinality(found[i] \cap expected[i])],
                           1..NScans)
            /\ confusion.fp =
                   SumOver([i \in 1..NScans |->
                               Cardinality(found[i] \ expected[i])],
                           1..NScans)
            /\ confusion.fn =
                   SumOver([i \in 1..NScans |->
                               Cardinality(expected[i] \ found[i])],
                           1..NScans)
            /\ confusion.tn =
                   SumOver([i \in 1..NScans |->
                               Len(Recorded[i].closed_ports)],
                           1..NScans)

\* Three services found where two of them were expected, and a second scan
\* of a target the ground truth does not know: TP = 2, FP = 1 + 1, FN = 0.
C17_Witness ==
    /\ confusion # None
    /\ NScans = 2
    /\ Recorded[1].services = <<"HTTP", "HTTPS", "HTTP-Alt">>
    /\ Recorded[1].target \in DOMAIN confusion.ground_truth
    /\ confusion.ground_truth[Recorded[1].target] = <<"HTTP", "HTTPS">>
    /\ Recorded[2].target \notin DOMAIN confusion.ground_truth
    /\ Recorded[2].services = <<"HTTP", "HTTP">>
    /\ confusion.tp = 2
    /\ confusion.fp = 2
    /\ confusion.fn = 0

\* r is the quotient n / d, and 0 when d is 0; it has been computed
\* without a division by zero.
IsQuotient(r, n, d) ==
    /\ r.den # 0
    /\ d # 0 => r.num * d = n * r.den
    /\ d = 0 => r.num = 0

\* C18: whatever was recorded and whatever the ground truth,
\* calculate_precision_recall returns precision = TP/(TP+FP), recall =
\* TP/(TP+FN), F1 = 2PR/(P+R) and accuracy = (TP+TN)/(TP+FP+FN+TN), each 0
\* when its denominator is 0, and divides by zero nowhere.  (2PR/(P+R) is
\* 2TP/(2TP+FP+FN), and P+R is 0 exactly when TP is 0.)
C18_RatesGuarded ==
    confusion # None =>
        LET tp == confusion.tp fp == confusion.fp
            fn == confusion.fn tn == confusion.tn
        IN  /\ IsQuotient(confusion.precision, tp, tp + fp)
            /\ IsQuotient(confusion.recall, tp, tp + fn)
            /\ IsQuotient(confusion.accuracy, tp + tn, tp + fp + fn + tn)
            /\ IsQuotient(confusion.f1_score, 2 * tp,
                          IF tp = 0 THEN 0 ELSE 2 * tp + fp + fn)

\* The rates of a collector whose scans found no service and no closed
\* port where services were expected: the denominators of precision and of
\* F1 are 0, those of recall and accuracy are not.
C18_Witness ==
    /\ confusion # None
    /\ NScans > 0
    /\ confusion.tp = 0
    /\ confusion.fp = 0
    /\ confusion.fn > 0
    /\ confusion.tn = 0

\* The tools that have an entry in results, and the entry of a tool.
Entered == {bench.results[i].tool_name : i \in 1..Len(bench.results)}
EntryOf(tool) == bench.results[CHOOSE i \in 1..Len(bench.results) :
                                   bench.results[i].tool_name = tool]

\* accuracy_score / total_time, taken as 0 when total_time is 0
Efficiency(tool) ==
    IF EntryOf(tool).total_time = 0 THEN Zero
    ELSE [num |-> EntryOf(tool).accuracy_score,
          den |-> EntryOf(tool).total_time]

\* ranking lists every tool of results exactly once.
ListsEachOnce(ranking) ==
    /\ Len(ranking) = Cardinality(Entered)
    /\ {ranking[i].tool : i \in 1..Len(ranking)} = Entered

\* C19: the report made of a non-empty results lists every tool exactly once
\* in speed_ranking, accuracy_ranking and efficiency_ranking, in the order
\* of non-increasing ports_per_second, accuracy_score and accuracy_score /
\* total_time (0 when total_time is 0), and overall_winner is the first of
\* the efficiency ranking, a tool no other tool is more efficient than.
C19_RankingsOrdered ==
    (bench.stage = "done" /\ bench.results # <<>>) =>
        LET r == bench.report
            n == Len(bench.results)
        IN  /\ ListsEachOnce(r.speed_ranking)
            /\ ListsEachOnce(r.accuracy_ranking)
            /\ ListsEachOnce(r.efficiency_ranking)
            /\ \A i, j \in 1..n : i < j =>
                   /\ ~FracGreater(
                          EntryOf(r.speed_ranking[j].tool).ports_per_second,
                          EntryOf(r.speed_ranking[i].tool).ports_per_second)
                   /\ EntryOf(r.accuracy_ranking[j].tool).accuracy_score
                          <= EntryOf(r.accuracy_ranking[i].tool).accuracy_score
                   /\ ~FracGreater(Efficiency(r.efficiency_ranking[j].tool),
                                   Efficiency(r.efficiency_ranking[i].tool))
            /\ r.overall_winner = r.efficiency_ranking[1].tool
            /\ \A t \in Entered :
                   ~FracGreater(Efficiency(t), Efficiency(r.overall_winner))

\* A report over three tools whose fastest tool is not the most efficient.
C19_Witness ==
    /\ bench.stage = "done"
    /\ Len(bench.results) = 3
    /\ bench.report.overall_winner # bench.report.speed_ranking[1].tool
    /\ \E i \in 1..3 : bench.results[i].total_time = 0

\* The names of the tools in the order their benchmarks run, and the tools
\* whose benchmark has succeeded: the tool ran and ended well.
ToolNames == <<"Custom Scanner", "Nmap", "Masscan">>
Succeeded == {ToolNames[i] : i \in {j \in 1..Len(bench.met) :
                                         bench.met[j] = "ok"}}

\* C20: whatever Nmap and Masscan are (installed, missing, failing),
\* run_comprehensive_benchmark ends without raising, results holds the
\* entries of exactly the tools whose benchmark succeeded, and the report
\* ranks exactly those.
C20_BenchmarkTolerant ==
    /\ bench.stage # "raised"
    /\ bench.stage = "done" =>
           /\ Entered = Succeeded
           /\ DOMAIN bench.report # {}
           /\ ListsEachOnce(bench.report.speed_ranking)
           /\ ListsEachOnce(bench.report.accuracy_ranking)
           /\ ListsEachOnce(bench.report.efficiency_ranking)

\* scan_subdomains has returned.
BatchDone == batch.stage = "done"

\* Turn i of the loop is the last one for its hostname: the entry of the
\* hostname is the one this turn stored.
LastTurn(i) ==
    \A j \in (i + 1)..Len(batch.met) :
        batch.subdomains[j] # batch.subdomains[i]

\* The turns of the loop whose scan returned, and the hostnames whose entry
\* is that of a scan.
ScannedTurns == {i \in 1..Len(batch.met) : batch.met[i] = "scanned"}
ScannedHosts == {batch.subdomains[i] : i \in {j \in ScannedTurns : LastTurn(j)}}

\* C21: a hostname whose lookup fails gets the entry of a failure (an error,
\* ip None, no ports, no metrics) and does not end the batch: every
\* hostname of the list has had its turn and has an entry, a hostname that
\* resolved has been scanned and has the entry of its scan, and the summary
\* counts and averages the scans that returned.
C21_FailedLookupIsolated ==
    BatchDone =>
        /\ Len(batch.met) = Len(batch.subdomains)
        /\ \A i \in 1..Len(batch.subdomains) :
               LET h == batch.subdomains[i] IN
               /\ h \in DOMAIN batch.results
               /\ (i \in ScannedTurns) => batch.probed[i] # {}
               /\ (LastTurn(i) /\ batch.met[i] = "gaierror") =>
                      batch.results[h] =
                          [error |-> "Could not resolve domain",
                           ip |-> None, ports |-> <<>>, metrics |-> None]
               /\ (LastTurn(i) /\ batch.met[i] = "scanned") =>
                      /\ DOMAIN batch.results[h] = {"ip", "ports", "metrics"}
                      /\ batch.results[h].ip = IpOf(h)
                      /\ batch.results[h].metrics # None
                      /\ \A k \in 1..Len(batch.results[h].ports) :
                             batch.results[h].ports[k].host = IpOf(h)
        /\ batch.summary.successful_scans = Cardinality(ScannedHosts)
        /\ batch.summary.total_open_ports =
               SumOver([h \in ScannedHosts |->
                           batch.results[h].metrics.open_ports_found],
                       ScannedHosts)
        /\ Len(batch.all_metrics) = Cardinality(ScannedTurns)
        /\ batch.summary.average_scan_time =
               IF ScannedTurns = {} THEN [num |-> 0, den |-> 1]
               ELSE [num |-> SumTotalTime(batch.all_metrics),
                     den |-> Cardinality(ScannedTurns)]

\* A returned batch of two hostnames whose first did not resolve and whose
\* second was scanned and has an open port.
C21_Witness ==
    /\ BatchDone
    /\ Len(batch.met) = 2
    /\ batch.met[1] = "gaierror"
    /\ batch.met[2] = "scanned"
    /\ batch.subdomains[1] # batch.subdomains[2]
    /\ batch.summary.successful_scans = 1
    /\ batch.summary.total_open_ports > 0

\* The number of open results in the list rs.
OpenCount(rs) == Cardinality({k \in 1..Len(rs) : IsOpen(rs[k])})

\* C29: when scan_subdomains is handed a list of ports, each scan probes
\* exactly the listed ports, the metrics of an entry count exactly the
\* listed ports (total_ports_scanned the ports of the list,
\* open_ports_found the open ones among them), and the summary's
\* total_open_ports is the number of open listed ports.
C29_ListedPortsOnly ==
    /\ \A i \in ScannedTurns :
           /\ batch.probed[i] = SeqToSet(batch.ports)
           /\ LastTurn(i) =>
                  LET e == batch.results[batch.subdomains[i]] IN
                  /\ e.metrics.total_ports_scanned = Len(batch.ports)
                  /\ e.metrics.open_ports_found = OpenCount(e.ports)
    /\ BatchDone =>
           batch.summary.total_open_ports =
               SumOver([h \in ScannedHosts |->
                           OpenCount(batch.results[h].ports)],
                       ScannedHosts)

\* What the call c returns when it runs alone on a scanner of its own: the
\* results of its gather in worklist order, each open one with the banner
\* its detection read.
Alone(c) ==
    [i \in 1..Len(calls[c].results) |->
        IF IsOpen(calls[c].results[i])
        THEN StoreBanner(calls[c].results[i], calls[c].banners[i])
        ELSE calls[c].results[i]]

\* C22: a scan_port_range call returns the results and the metrics it
\* returns when run alone, all of its own host and of the ports of its own
\* worklist, whether another call on the same PortScanner object is
\* suspended at one of its awaits meanwhile or has left its results in
\* self.scan_results before.
C22_ScansIndependent ==
    \A c \in CallIds :
        calls[c].stage = "done" =>
            /\ calls[c].returned.results = Alone(c)
            /\ calls[c].returned.metrics =
                   RangeMetrics(HostOf(c), Alone(c),
                                calls[c].returned.metrics.total_time)
            /\ \A i \in 1..Len(calls[c].returned.results) :
                   /\ calls[c].returned.results[i].host = HostOf(c)
                   /\ calls[c].returned.results[i].port = calls[c].worklist[i]
            /\ Len(calls[c].returned.results) = Len(calls[c].worklist)

\* Call 1 has returned two results, one with a banner, after having run
\* while another call was suspended; call 2 has found results in
\* self.scan_results when it started and has left its own there.
C22_Witness ==
    /\ calls[1].stage = "done"
    /\ calls[2].stage = "done"
    /\ calls[1].overlapped
    /\ calls[2].found
    /\ Len(calls[1].returned.results) = 2
    /\ \E i \in 1..2 : calls[1].returned.results[i].banner # <<>>
    /\ scan_results = calls[2].returned.results
    /\ scan_results # <<>>

\* C23: no probe leaks a socket: when tcp_connect_scan, syn_scan_sync or
\* udp_scan has returned, on any outcome, the socket it opened has been
\* closed (service_detection closes its connection in DetectClose before
\* it returns).
C23_NoSocketLeft ==
    \A p \in Ports :
        probe[p].stage = "done" =>
            "unclosed" \notin SocketAtReturn(ProbeKind, probe[p].outcome)

C25_NoProbeStalls ==
    \A p, q \in Ports :
        (probe[p].stage \in InFlightStages /\ NextToStart(q)) =>
            ENABLED (TcpStart(q) \/ SynStart(q) \/ UdpStart(q))

\* C26: service_detection writes the port's probe only when its listen for
\* an unsolicited banner brought none: a detection that has got a banner
\* in the listen and goes on to read has written no probe.
C26_ProbeOnlyWithoutBanner ==
    (sd.stage = "read" /\ sd.probe_sent) =>
        (sd.listen # "data" /\ sd.banner = <<>>)

\* C27 as stated: the timeout service_detection opens its connection with
\* is at least 1 second and never larger than the configured timeout.
C27_WithinConfigured ==
    sd.stage # "idle" =>
        (sd.probe_timeout >= 10 /\ sd.probe_timeout <= timeout)

\* C27: the timeout service_detection opens its connection with is at
\* least 1 second and at most 5 seconds; it is the configured timeout when
\* that lies between 1 and 5 seconds, and it is larger than the configured
\* timeout only when that is below 1 second.
C27_ClampedOneToFive ==
    sd.stage # "idle" =>
        /\ sd.probe_timeout >= 10
        /\ sd.probe_timeout <= 50
        /\ (timeout >= 10 /\ timeout <= 50) => sd.probe_timeout = timeout
        /\ timeout >= 10 => sd.probe_timeout <= timeout
        /\ timeout < 10 => sd.probe_timeout = 10

\* A detection awaiting its connection on a scanner configured with half a
\* second: it waits for a full second.
C27_Witness ==
    /\ sd.stage = "connect"
    /\ timeout = 5
    /\ sd.probe_timeout = 10

\* The markers _extract_version looks for, and the prefix of s that ends
\* before its first line terminator (all of s when it has none).
Markers == {<<"S", "S", "H">>, <<"H", "T", "T", "P">>, <<"F", "T", "P">>}
LineTerminators == {"\r", "\n"}
UpToTerminator(s) ==
    IF \E i \in 1..Len(s) : s[i] \in LineTerminators
    THEN LET k == CHOOSE i \in 1..Len(s) :
                      /\ s[i] \in LineTerminators
                      /\ \A j \in 1..(i - 1) : s[j] \notin LineTerminators
         IN  SubSeq(s, 1, k - 1)
    ELSE s

\* C28: the banner service_detection stores has at most 200 characters, and
\* the version stored with it is the banner up to its first line
\* terminator (CR or LF) when the banner contains SSH, HTTP or FTP, and the
\* first 50 characters of the banner otherwise.
C28_VersionFirstLine ==
    (detected # None /\ detected.path = "banner") =>
        /\ Len(Detected.banner) <= DetectBannerLimit
        /\ Detected.version =
               IF \E m \in Markers : Contains(Detected.banner, m)
               THEN UpToTerminator(Detected.banner)
               ELSE Take(Detected.banner, VersionLimit)

\* C30: the list a completed scan_port_range returns is in worklist order,
\* whatever the order in which its probes completed: of two results the
\* one whose port comes first in the worklist comes first.
C30_ResultsInWorklistOrder ==
    RangeScanDone =>
        \A i, j \in 1..Len(valid_results) :
            i < j => PositionOf(valid_results[i].port)
                         < PositionOf(valid_results[j].port)

\* A completed scan of two ports, the well-known one first, whose second
\* probe returned before its first.
C30_Witness ==
    /\ RangeScanDone
    /\ out_of_order
    /\ Len(valid_results) = 2
    /\ valid_results[1].port > valid_results[2].port

====
